---------------------------- MODULE Spec2Model ----------------------------
(***************************************************************************)
(* A model of the serde-json-core deserializer (src/src/de/mod.rs) and of  *)
(* its in-place string unescaper (src/src/de/string_unescaper.rs).         *)
(*                                                                         *)
(* Bytes are the integers 0..255.  Offsets (index, w, r, base) are the     *)
(* code's 0-based offsets; At(s, i) reads the byte at 0-based offset i.    *)
(***************************************************************************)
EXTENDS Integers, Sequences, FiniteSets, TLC

VARIABLES
    input,   \* the caller's buffer as it was handed over (never changes)
    buf,     \* the caller's buffer, current contents
    base,    \* offset in buf at which self.slice starts (after consume_passed)
    index,   \* Deserializer.index, an offset into self.slice
    shape,   \* the type T the binding layer decodes (the entry point's T)
    pc,      \* the control point of the parse
    w,       \* unescape_string_to_termination: write offset
    r,       \* unescape_string_to_termination: read offset
    stack,   \* the open containers, innermost last
    value,   \* the value handed to the binding layer so far
    result,  \* what the entry function returned
    expect   \* what the test that built the input expects (as in assert_eq!)

vars == <<input, buf, base, index, shape, pc, w, r, stack, value, result, expect>>

-----------------------------------------------------------------------------
(* Bounds of the model. *)

\* longest buffer of arbitrary bytes handed to the unescaper
MaxLen == 4

\* longest buffer of arbitrary bytes handed to from_slice for a scalar
MaxJunk == 3

\* most whitespace bytes put before a literal
MaxPad == 1

\* most bytes put after a literal
MaxTail == 2

\* numerals -SmallMax..SmallMax are tried for every integer type
SmallMax == 300

\* numerals within Window of a type's MIN and MAX are tried
Window == 10

\* most escape tokens in a generated string literal
MaxTokens == 2

\* most elements a sequence visitor asks for
MaxArity == 2

\* longest run of arbitrary bytes after an opening bracket
MaxSeqBody == 6

\* most elements of a generated array
MaxElems == 3

\* most entries of a generated object
MaxEntries == 2

\* longest run of arbitrary bytes after the entries of an object
MaxMapTail == 2

\* most entries, known or not, before the last one of a generated struct
MaxIgnEntries == 2

\* longest run of arbitrary bytes handed to the ignore-value operation
MaxIgnJunk == 4

\* most pieces of a generated text of several-byte characters and escapes
MaxPieces == 4

\* most strings of a generated array of strings
MaxStrs == 2

-----------------------------------------------------------------------------
(* Byte literals. *)

B == [ tab |-> 9, lf |-> 10, cr |-> 13, sp |-> 32, quote |-> 34, plus |-> 43,
       comma |-> 44, minus |-> 45, dot |-> 46, slash |-> 47, d0 |-> 48,
       d1 |-> 49, d8 |-> 56, d9 |-> 57, colon |-> 58, A |-> 65, D |-> 68,
       E |-> 69, F |-> 70, lbracket |-> 91, backslash |-> 92,
       rbracket |-> 93, a |-> 97, e |-> 101, f |-> 102, n |-> 110, r |-> 114,
       t |-> 116, u |-> 117, x |-> 120, z |-> 122, lbrace |-> 123,
       rbrace |-> 125 ]

At(s, i) == s[i + 1]

\* s[from..to) with 0-based offsets
Slice(s, from, to) == SubSeq(s, from + 1, to)

BSeq(S, n) == UNION { [1..k -> S] : k \in 0..n }

-----------------------------------------------------------------------------
(* Result values. *)

Ok(v) == [tag |-> "Ok", val |-> v]

Err(e) == [tag |-> "Err", err |-> e]

Panic == [tag |-> "Panic"]

Pending == [tag |-> "Pending"]

NoValue == [tag |-> "NoValue"]

\* the unescaper's loop goes round again
Loop == [tag |-> "Loop"]

-----------------------------------------------------------------------------
(* core library operations the unescaper calls. *)

IsHexDigit(c) ==
    \/ c \in B.d0..B.d9
    \/ c \in B.a..B.f
    \/ c \in B.A..B.F

HexVal(c) ==
    IF c \in B.d0..B.d9 THEN c - B.d0
    ELSE IF c \in B.a..B.f THEN c - B.a + 10
    ELSE c - B.A + 10

RECURSIVE HexFold(_, _)
HexFold(digits, acc) ==
    IF digits = <<>> THEN acc
    ELSE HexFold(Tail(digits), acc * 16 + HexVal(Head(digits)))

\* u32::from_str_radix(s, 16): an optional leading '+' (never '-', the type
\* is unsigned), then one or more hex digits.  -1 stands for Err.
FromStrRadix16(s) ==
    LET digits == IF s # <<>> /\ Head(s) = B.plus THEN Tail(s) ELSE s
    IN  IF digits = <<>> \/ \E i \in 1..Len(digits) : ~IsHexDigit(digits[i])
        THEN -1
        ELSE HexFold(digits, 0)

\* core::char::from_u32: None (FALSE here) for a surrogate or a value above
\* 0x10FFFF.
CharFromU32Ok(cp) == ~(cp \in 55296..57343) /\ cp <= 1114111

\* an encoding that stores a code point below 0x100 as one byte
EncodeLatin1(cp) ==
    IF cp < 256 THEN <<cp>>
    ELSE IF cp < 2048 THEN <<192 + (cp \div 64), 128 + (cp % 64)>>
    ELSE <<224 + (cp \div 4096), 128 + ((cp \div 64) % 64), 128 + (cp % 64)>>

\* char::encode_utf8 for a code point below 0x10000.
EncodeUtf8(cp) ==
    IF cp < 128 THEN <<cp>>
    ELSE IF cp < 2048 THEN <<192 + (cp \div 64), 128 + (cp % 64)>>
    ELSE <<224 + (cp \div 4096), 128 + ((cp \div 64) % 64), 128 + (cp % 64)>>

IsCont(c) == c \in 128..191

\* core::str::from_utf8(..).is_ok()
RECURSIVE IsUtf8(_)
IsUtf8(s) ==
    IF s = <<>> THEN TRUE
    ELSE LET c == s[1]
             n == Len(s)
         IN  IF c < 128 THEN IsUtf8(Tail(s))
             ELSE IF c \in 194..223
             THEN n >= 2 /\ IsCont(s[2]) /\ IsUtf8(SubSeq(s, 3, n))
             ELSE IF c \in 224..239
             THEN /\ n >= 3
                  /\ IsCont(s[2]) /\ IsCont(s[3])
                  /\ (c = 224 => s[2] >= 160)
                  /\ (c = 237 => s[2] <= 159)
                  /\ IsUtf8(SubSeq(s, 4, n))
             ELSE IF c \in 240..244
             THEN /\ n >= 4
                  /\ IsCont(s[2]) /\ IsCont(s[3]) /\ IsCont(s[4])
                  /\ (c = 240 => s[2] >= 144)
                  /\ (c = 244 => s[2] <= 143)
                  /\ IsUtf8(SubSeq(s, 5, n))
             ELSE FALSE

\* buffer with the bytes of enc stored from 0-based offset at on
WriteAt(buffer, at, enc) ==
    [i \in 1..Len(buffer) |->
        IF i - 1 \in at..(at + Len(enc) - 1) THEN enc[i - at] ELSE buffer[i]]

-----------------------------------------------------------------------------
(* string_unescaper.rs: one iteration of the loop of                       *)
(* unescape_string_to_termination, from offsets (w0, r0) of buffer.        *)
(* ret is Loop when the loop goes round again, else the function's         *)
(* return (or the panic of the unwrap).                                    *)

UnescapeOut(ret, buffer, w1, r1) == [ret |-> ret, buffer |-> buffer, w |-> w1, r |-> r1]

\* UnescapeUnicode with the short read reported as an invalid escape
UnescapeUnicodeShortIsInvalid(buffer, w0, r2) ==
    IF Len(buffer) < r2 + 4
    THEN UnescapeOut(Err("InvalidEscape"), buffer, w0, r2)
    ELSE LET four == Slice(buffer, r2, r2 + 4)
             codepoint == FromStrRadix16(four)
         IN  IF ~IsUtf8(four) \/ codepoint = -1
             THEN UnescapeOut(Err("InvalidEscape"), buffer, w0, r2)
             ELSE IF ~CharFromU32Ok(codepoint)
             THEN UnescapeOut(Panic, buffer, w0, r2)
             ELSE LET encoded_string == EncodeUtf8(codepoint)
                  IN  UnescapeOut(Loop, WriteAt(buffer, w0, encoded_string),
                                  w0 + Len(encoded_string), r2 + 4)

\* the `b'u'` arm, entered with r2 just past the 'u'
UnescapeUnicode(buffer, w0, r2) ==
    IF Len(buffer) < r2 + 4
    THEN UnescapeOut(Err("EofWhileParsingString"), buffer, w0, r2)
    ELSE LET four == Slice(buffer, r2, r2 + 4)
             codepoint == FromStrRadix16(four)
         IN  IF ~IsUtf8(four) \/ codepoint = -1
             THEN UnescapeOut(Err("InvalidEscape"), buffer, w0, r2)
             ELSE IF ~CharFromU32Ok(codepoint)
             THEN UnescapeOut(Panic, buffer, w0, r2)
             ELSE LET encoded_string == EncodeUtf8(codepoint)
                  IN  UnescapeOut(Loop, WriteAt(buffer, w0, encoded_string),
                                  w0 + Len(encoded_string), r2 + 4)

\* UnescapeEscape with a backslash at the end of the buffer reported as an
\* invalid escape
UnescapeEscapeEndIsInvalid(buffer, w0, r1) ==
    IF Len(buffer) < r1 + 1
    THEN UnescapeOut(Err("InvalidEscape"), buffer, w0, r1)
    ELSE LET escaped_byte == At(buffer, r1)
             r2 == r1 + 1
         IN  IF escaped_byte \in {B.backslash, B.slash, B.quote}
             THEN UnescapeOut(Loop, WriteAt(buffer, w0, <<escaped_byte>>),
                              w0 + 1, r2)
             ELSE IF escaped_byte = B.u
             THEN UnescapeUnicode(buffer, w0, r2)
             ELSE UnescapeOut(Err("InvalidEscape"), buffer, w0, r2)

\* the `read_byte == b'\\'` branch, entered with r1 just past the backslash
UnescapeEscape(buffer, w0, r1) ==
    IF Len(buffer) < r1 + 1
    THEN UnescapeOut(Err("EofWhileParsingString"), buffer, w0, r1)
    ELSE LET escaped_byte == At(buffer, r1)
             r2 == r1 + 1
         IN  IF escaped_byte \in {B.backslash, B.slash, B.quote}
             THEN UnescapeOut(Loop, WriteAt(buffer, w0, <<escaped_byte>>),
                              w0 + 1, r2)
             ELSE IF escaped_byte = B.u
             THEN UnescapeUnicode(buffer, w0, r2)
             ELSE UnescapeOut(Err("InvalidEscape"), buffer, w0, r2)

\* UnescapeIter storing a plain byte at the read offset instead of the write
\* offset
UnescapeIterWritesAtR(buffer, w0, r0) ==
    IF Len(buffer) < r0 + 1
    THEN UnescapeOut(Err("EofWhileParsingString"), buffer, w0, r0)
    ELSE LET read_byte == At(buffer, r0)
             r1 == r0 + 1
         IN  IF read_byte = B.backslash
             THEN UnescapeEscape(buffer, w0, r1)
             ELSE IF read_byte = B.quote
             THEN UnescapeOut(Ok(<<w0, r1>>), buffer, w0, r1)
             ELSE UnescapeOut(Loop, WriteAt(buffer, r1, <<read_byte>>),
                              w0 + 1, r1)

UnescapeIter(buffer, w0, r0) ==
    IF Len(buffer) < r0 + 1
    THEN UnescapeOut(Err("EofWhileParsingString"), buffer, w0, r0)
    ELSE LET read_byte == At(buffer, r0)
             r1 == r0 + 1
         IN  IF read_byte = B.backslash
             THEN UnescapeEscape(buffer, w0, r1)
             ELSE IF read_byte = B.quote
             THEN UnescapeOut(Ok(<<w0, r1>>), buffer, w0, r1)
             ELSE UnescapeOut(Loop, WriteAt(buffer, w0, <<read_byte>>),
                              w0 + 1, r1)

-----------------------------------------------------------------------------
(* mod.rs: the cursor's primitives, as functions of (self.slice, index).   *)

\* Option::None of peek / parse_whitespace
None == -1

Whitespace == {B.sp, B.lf, B.tab, B.cr}

Digits == B.d0..B.d9

peek(sl, i) == IF i < Len(sl) THEN At(sl, i) ELSE None

\* the index parse_whitespace leaves; what it returns is peek at that index
RECURSIVE parse_whitespace(_, _)
parse_whitespace(sl, i) ==
    IF peek(sl, i) \in Whitespace THEN parse_whitespace(sl, i + 1) ELSE i

\* a handler's outcome: what it returns and the index it leaves
Out(ret, i) == [ret |-> ret, index |-> i]

\* parse_ident with a next_char that steps on at the end of the slice too
RECURSIVE parse_ident_unchecked(_, _, _)
parse_ident_unchecked(sl, i, ident) ==
    IF ident = <<>> THEN Out(Ok(TRUE), i)
    ELSE IF peek(sl, i) # Head(ident) THEN Out(Err("ExpectedSomeIdent"), i + 1)
    ELSE parse_ident_unchecked(sl, i + 1, Tail(ident))

\* next_char steps over a byte only when there is one
RECURSIVE parse_ident(_, _, _)
parse_ident(sl, i, ident) ==
    IF ident = <<>> THEN Out(Ok(TRUE), i)
    ELSE IF peek(sl, i) = None THEN Out(Err("ExpectedSomeIdent"), i)
    ELSE IF peek(sl, i) # Head(ident) THEN Out(Err("ExpectedSomeIdent"), i + 1)
    ELSE parse_ident(sl, i + 1, Tail(ident))

\* end that lets anything follow the value
end_ignores_rest(sl, i0) == Out(Ok(TRUE), parse_whitespace(sl, i0))

end(sl, i0) ==
    LET i == parse_whitespace(sl, i0)
    IN  IF peek(sl, i) # None THEN Out(Err("TrailingCharacters"), i)
        ELSE Out(Ok(TRUE), i)

\* end_seq with end_map's rule: any comma is a trailing comma
end_seq_any_comma(sl, i0) ==
    LET i == parse_whitespace(sl, i0)
        c == peek(sl, i)
    IN  IF c = None THEN Out(Err("EofWhileParsingList"), i)
        ELSE IF c = B.rbracket THEN Out(Ok(TRUE), i + 1)
        ELSE IF c = B.comma THEN Out(Err("TrailingComma"), i + 1)
        ELSE Out(Err("TrailingCharacters"), i)

end_seq(sl, i0) ==
    LET i == parse_whitespace(sl, i0)
        c == peek(sl, i)
    IN  IF c = None THEN Out(Err("EofWhileParsingList"), i)
        ELSE IF c = B.rbracket THEN Out(Ok(TRUE), i + 1)
        ELSE IF c = B.comma
        THEN LET j == parse_whitespace(sl, i + 1)
             IN  IF peek(sl, j) = B.rbracket
                 THEN Out(Err("TrailingComma"), j)
                 ELSE Out(Err("TrailingCharacters"), j)
        ELSE Out(Err("TrailingCharacters"), i)

\* end_map that eats the comma and looks for the brace, as end_seq does
end_map_like_seq(sl, i0) ==
    LET i == parse_whitespace(sl, i0)
        c == peek(sl, i)
    IN  IF c = None THEN Out(Err("EofWhileParsingObject"), i)
        ELSE IF c = B.rbrace THEN Out(Ok(TRUE), i + 1)
        ELSE IF c = B.comma
        THEN LET j == parse_whitespace(sl, i + 1)
             IN  IF peek(sl, j) = B.rbrace
                 THEN Out(Err("TrailingComma"), j)
                 ELSE Out(Err("TrailingCharacters"), j)
        ELSE Out(Err("TrailingCharacters"), i)

end_map(sl, i0) ==
    LET i == parse_whitespace(sl, i0)
        c == peek(sl, i)
    IN  IF c = None THEN Out(Err("EofWhileParsingObject"), i)
        ELSE IF c = B.rbrace THEN Out(Ok(TRUE), i + 1)
        ELSE IF c = B.comma THEN Out(Err("TrailingComma"), i)
        ELSE Out(Err("TrailingCharacters"), i)

parse_object_colon(sl, i0) ==
    LET i == parse_whitespace(sl, i0)
        c == peek(sl, i)
    IN  IF c = None THEN Out(Err("EofWhileParsingObject"), i)
        ELSE IF c = B.colon THEN Out(Ok(TRUE), i + 1)
        ELSE Out(Err("ExpectedColon"), i)

\* deserialize_seq that skips whitespace first, as deserialize_map does
deserialize_seq_skips_whitespace(sl, i) ==
    LET j == parse_whitespace(sl, i)
    IN  IF peek(sl, j) = None THEN Out(Err("EofWhileParsingValue"), j)
        ELSE IF peek(sl, j) = B.lbracket THEN Out(Ok(TRUE), j + 1)
        ELSE Out(Err("InvalidType"), j)

\* deserialize_seq up to the visitor's call: Ok when `[` was eaten
deserialize_seq(sl, i) ==
    IF peek(sl, i) = None THEN Out(Err("EofWhileParsingValue"), i)
    ELSE IF peek(sl, i) = B.lbracket THEN Out(Ok(TRUE), i + 1)
    ELSE Out(Err("InvalidType"), i)

\* deserialize_map up to the visitor's call: Ok when `{` was eaten
deserialize_map(sl, i0) ==
    LET i == parse_whitespace(sl, i0)
    IN  IF peek(sl, i) = None THEN Out(Err("EofWhileParsingValue"), i)
        ELSE IF peek(sl, i) = B.lbrace THEN Out(Ok(TRUE), i + 1)
        ELSE Out(Err("InvalidType"), i)

-----------------------------------------------------------------------------
(* The structural adapters (de/seq.rs, de/map.rs), after section 4.4 of    *)
(* the specification.                                                      *)

\* Ok(None): the container has no more elements
NoMore == [tag |-> "NoMore"]

\* SeqAccess::next_element_seed up to the element's decode: Ok when an
\* element is to be decoded at the index left
next_element(sl, i0, first) ==
    LET i == parse_whitespace(sl, i0)
        c == peek(sl, i)
    IN  IF c = None THEN Out(Err("EofWhileParsingList"), i)
        ELSE IF c = B.rbracket THEN Out(NoMore, i)
        ELSE IF first THEN Out(Ok(TRUE), i)
        ELSE IF c = B.comma THEN Out(Ok(TRUE), i + 1)
        ELSE Out(Err("ExpectedListCommaOrEnd"), i)

\* MapAccess::next_key_seed up to the key's decode: Ok when a key, a quoted
\* string, is to be decoded at the index left
next_key(sl, i0, first) ==
    LET i == parse_whitespace(sl, i0)
        c == peek(sl, i)
    IN  IF c = None THEN Out(Err("EofWhileParsingObject"), i)
        ELSE IF c = B.rbrace THEN Out(NoMore, i)
        ELSE IF ~first /\ c # B.comma THEN Out(Err("ExpectedObjectCommaOrEnd"), i)
        ELSE LET j == parse_whitespace(sl, IF first THEN i ELSE i + 1)
             IN  IF peek(sl, j) = None THEN Out(Err("EofWhileParsingObject"), j)
                 ELSE IF peek(sl, j) = B.quote THEN Out(Ok(TRUE), j)
                 ELSE Out(Err("KeyMustBeAString"), j)

-----------------------------------------------------------------------------
(* mod.rs: the handlers of scalar values. *)

\* deserialize_bool that steps over the rest of the literal unread
deserialize_bool_by_first_byte(sl, i0) ==
    LET i == parse_whitespace(sl, i0)
        c == peek(sl, i)
    IN  IF c = None THEN Out(Err("EofWhileParsingValue"), i)
        ELSE IF c = B.t
        THEN IF i + 4 <= Len(sl) THEN Out(Ok(TRUE), i + 4)
             ELSE Out(Err("ExpectedSomeIdent"), Len(sl))
        ELSE IF c = B.f
        THEN IF i + 5 <= Len(sl) THEN Out(Ok(FALSE), i + 5)
             ELSE Out(Err("ExpectedSomeIdent"), Len(sl))
        ELSE Out(Err("InvalidType"), i)

deserialize_bool(sl, i0) ==
    LET i == parse_whitespace(sl, i0)
        c == peek(sl, i)
    IN  IF c = None THEN Out(Err("EofWhileParsingValue"), i)
        ELSE IF c = B.t
        THEN LET o == parse_ident(sl, i + 1, <<114, 117, 101>>)
             IN  IF o.ret.tag = "Ok" THEN Out(Ok(TRUE), o.index) ELSE o
        ELSE IF c = B.f
        THEN LET o == parse_ident(sl, i + 1, <<97, 108, 115, 101>>)
             IN  IF o.ret.tag = "Ok" THEN Out(Ok(FALSE), o.index) ELSE o
        ELSE Out(Err("InvalidType"), i)

IntKinds == {"u8", "u16", "i8", "i16"}

UnsignedKinds == {"u8", "u16"}

\* $uxx::MIN / $ixx::MIN and $uxx::MAX / $ixx::MAX
IntMin == [u8 |-> 0, u16 |-> 0, i8 |-> -128, i16 |-> -32768]

IntMax == [u8 |-> 255, u16 |-> 65535, i8 |-> 127, i16 |-> 32767]

\* checked_mul / checked_add: an Option as a set, {} for None
checked_mul(x, y, kind) ==
    IF x * y \in IntMin[kind]..IntMax[kind] THEN {x * y} ELSE {}

\* checked_add that wraps round instead of failing
wrapping_add(x, y, kind) ==
    {IntMin[kind] + ((x + y - IntMin[kind]) % (IntMax[kind] - IntMin[kind] + 1))}

checked_add(x, y, kind) ==
    IF x + y \in IntMin[kind]..IntMax[kind] THEN {x + y} ELSE {}

\* the accumulation loop both integer macros share; sgn is 1, or -1 for a
\* signed type after '-'
RECURSIVE accumulate(_, _, _, _, _)
accumulate(sl, i, number, sgn, kind) ==
    IF peek(sl, i) \in Digits
    THEN LET d == (peek(sl, i) - B.d0) * sgn
             m == checked_mul(number, 10, kind)
         IN  IF m = {} THEN Out(Err("InvalidNumber"), i + 1)
             ELSE LET a == checked_add(CHOOSE v \in m : TRUE, d, kind)
                  IN  IF a = {} THEN Out(Err("InvalidNumber"), i + 1)
                      ELSE accumulate(sl, i + 1, CHOOSE v \in a : TRUE, sgn, kind)
    ELSE Out(Ok(number), i)

\* deserialize_unsigned going on after a leading zero
deserialize_unsigned_leading_zero(sl, i0, kind) ==
    LET i == parse_whitespace(sl, i0)
        c == peek(sl, i)
    IN  IF c = None THEN Out(Err("EofWhileParsingValue"), i)
        ELSE IF c = B.minus THEN Out(Err("InvalidNumber"), i)
        ELSE IF c \in B.d0..B.d9
        THEN accumulate(sl, i + 1, c - B.d0, 1, kind)
        ELSE Out(Err("InvalidType"), i)

deserialize_unsigned(sl, i0, kind) ==
    LET i == parse_whitespace(sl, i0)
        c == peek(sl, i)
    IN  IF c = None THEN Out(Err("EofWhileParsingValue"), i)
        ELSE IF c = B.minus THEN Out(Err("InvalidNumber"), i)
        ELSE IF c = B.d0 THEN Out(Ok(0), i + 1)
        ELSE IF c \in (B.d0 + 1)..B.d9
        THEN accumulate(sl, i + 1, c - B.d0, 1, kind)
        ELSE Out(Err("InvalidType"), i)

deserialize_signed(sl, i0, kind) ==
    LET i1 == parse_whitespace(sl, i0)
    IN  IF peek(sl, i1) = None THEN Out(Err("EofWhileParsingValue"), i1)
        ELSE LET signed == peek(sl, i1) = B.minus
                 i == IF signed THEN i1 + 1 ELSE i1
                 c == peek(sl, i)
             IN  IF c = None THEN Out(Err("EofWhileParsingValue"), i)
                 ELSE IF c = B.d0 THEN Out(Ok(0), i + 1)
                 ELSE IF c \in (B.d0 + 1)..B.d9
                 THEN accumulate(sl, i + 1,
                                 (c - B.d0) * (IF signed THEN -1 ELSE 1),
                                 IF signed THEN -1 ELSE 1, kind)
                 ELSE Out(Err("InvalidType"), i)

FloatKinds == {"f32", "f64"}

\* b"0123456789+-.eE"
FloatPattern == Digits \cup {B.plus, B.minus, B.dot, B.e, B.E}

\* the 1-based position just past the run of digits of s that starts at p
RECURSIVE DigitRun(_, _)
DigitRun(s, p) ==
    IF p <= Len(s) /\ s[p] \in Digits THEN DigitRun(s, p + 1) ELSE p

RECURSIVE DecFold(_, _)
DecFold(digits, acc) ==
    IF digits = <<>> THEN acc
    ELSE DecFold(Tail(digits), acc * 10 + (Head(digits) - B.d0))

\* a decimal value mant * 10^exp without trailing zeros in mant
RECURSIVE Normal(_, _, _)
Normal(neg, mant, exp) ==
    IF mant = 0 THEN [neg |-> neg, mant |-> 0, exp |-> 0]
    ELSE IF mant % 10 = 0 THEN Normal(neg, mant \div 10, exp + 1)
    ELSE [neg |-> neg, mant |-> mant, exp |-> exp]

\* f32::from_str / f64::from_str on a slice of FloatPattern bytes:
\*   Sign? (Digit+ | Digit+ '.' Digit* | Digit* '.' Digit+) ([eE] Sign? Digit+)?
\* The value is the decimal the text denotes (the rounding to binary is not
\* modelled); {} is Err.
FloatFromStr(s) ==
    LET n == Len(s)
        p0 == IF n >= 1 /\ s[1] \in {B.plus, B.minus} THEN 2 ELSE 1
        neg == n >= 1 /\ s[1] = B.minus
        p1 == DigitRun(s, p0)
        dot == p1 <= n /\ s[p1] = B.dot
        p2 == IF dot THEN DigitRun(s, p1 + 1) ELSE p1
        ipart == SubSeq(s, p0, p1 - 1)
        fpart == IF dot THEN SubSeq(s, p1 + 1, p2 - 1) ELSE <<>>
        hasexp == p2 <= n /\ s[p2] \in {B.e, B.E}
        p3 == IF hasexp /\ p2 + 1 <= n /\ s[p2 + 1] \in {B.plus, B.minus}
              THEN p2 + 2 ELSE p2 + 1
        eneg == hasexp /\ p2 + 1 <= n /\ s[p2 + 1] = B.minus
        p4 == IF hasexp THEN DigitRun(s, p3) ELSE p2
        edigits == IF hasexp THEN SubSeq(s, p3, p4 - 1) ELSE <<>>
        e == DecFold(edigits, 0) * (IF eneg THEN -1 ELSE 1)
    IN  IF \/ Len(ipart) + Len(fpart) = 0
           \/ hasexp /\ edigits = <<>>
           \/ p4 # n + 1
        THEN {}
        ELSE {Normal(neg, DecFold(ipart \o fpart, 0), e - Len(fpart))}

\* the loop of deserialize_fromstr!, from index i with the number's start
RECURSIVE deserialize_fromstr(_, _, _)
deserialize_fromstr(sl, start, i) ==
    IF peek(sl, i) = None THEN Out(Err("EofWhileParsingNumber"), i)
    ELSE IF peek(sl, i) \in FloatPattern THEN deserialize_fromstr(sl, start, i + 1)
    ELSE LET v == FloatFromStr(Slice(sl, start, i))
         IN  IF v = {} THEN Out(Err("InvalidNumber"), i)
             ELSE Out(Ok(CHOOSE x \in v : TRUE), i)

deserialize_float(sl, i0) ==
    LET i == parse_whitespace(sl, i0)
    IN  IF peek(sl, i) = None THEN Out(Err("EofWhileParsingValue"), i)
        ELSE deserialize_fromstr(sl, i, i)

\* deserialize_str up to the call of parse_str: Ok when the opening quote
\* was eaten
deserialize_str(sl, i0) ==
    LET i == parse_whitespace(sl, i0)
    IN  IF peek(sl, i) = None THEN Out(Err("EofWhileParsingValue"), i)
        ELSE IF peek(sl, i) = B.quote THEN Out(Ok(TRUE), i + 1)
        ELSE Out(Err("InvalidType"), i)

\* what deserialize_ignored_any hands the value to: another handler of the
\* deserializer, called with the same visitor
Delegate(kind) == [tag |-> "Delegate", kind |-> kind]

Delimiters == {B.comma, B.rbrace, B.rbracket}

\* chomp that stops at whitespace as well
RECURSIVE chomp_to_whitespace(_, _)
chomp_to_whitespace(sl, i) ==
    IF peek(sl, i) = None THEN Out(Err("EofWhileParsingString"), i)
    ELSE IF peek(sl, i) \in Delimiters \cup Whitespace THEN Out(Ok([tag |-> "Unit"]), i)
    ELSE chomp_to_whitespace(sl, i + 1)

\* the loop of deserialize_ignored_any over a bare token
RECURSIVE chomp(_, _)
chomp(sl, i) ==
    IF peek(sl, i) = None THEN Out(Err("EofWhileParsingString"), i)
    ELSE IF peek(sl, i) \in Delimiters THEN Out(Ok([tag |-> "Unit"]), i)
    ELSE chomp(sl, i + 1)

deserialize_ignored_any(sl, i0) ==
    LET i == parse_whitespace(sl, i0)
        c == peek(sl, i)
    IN  IF c = None THEN Out(Err("EofWhileParsingValue"), i)
        ELSE IF c = B.quote THEN Out(Delegate("str"), i)
        ELSE IF c = B.lbracket THEN Out(Delegate("seq"), i)
        ELSE IF c = B.lbrace THEN Out(Delegate("map"), i)
        ELSE IF c \in Delimiters THEN Out(Err("ExpectedSomeValue"), i)
        ELSE chomp(sl, i)

-----------------------------------------------------------------------------
(* Inputs. *)

\* bytes that matter to the unescaper: the escape introducer, the quote, the
\* escapable bytes, hex digits of both cases, a sign, a plain byte
UnescAlphabet ==
    {B.backslash, B.quote, B.slash, B.u, B.d0, B.d8, B.D, B.plus, B.x}

\* the four bytes tried after `\u`: hex digits whose combinations give 1-,
\* 2- and 3-byte code points and surrogates, a sign, a non-hex byte and a
\* non-ASCII byte
HexSample == {B.d0, B.d8, B.D, B.a, B.plus, B.x, 226}

UnicodeEscapes ==
    { pre \o <<B.backslash, B.u>> \o four \o post :
        pre \in {<<>>, <<B.x>>, <<B.backslash, B.backslash>>},
        four \in [1..4 -> HexSample],
        post \in {<<>>, <<B.quote>>, <<B.x, B.quote>>} }

\* pieces of text: plain bytes, the escape introducer, the quote, halves of
\* a `\u` escape, characters of two, three and four bytes, and a character
\* of three bytes cut in two
TextPieces ==
    { <<B.x>>, <<B.backslash>>, <<B.quote>>, <<B.backslash, B.u>>,
      <<B.d0, B.d0>>, <<B.D, B.d8>>, <<195, 169>>, <<226, 152>>, <<186>>,
      <<240, 159, 152, 128>> }

RECURSIVE Texts(_)
Texts(n) ==
    IF n = 0 THEN {<<>>}
    ELSE { t \o piece : t \in Texts(n - 1), piece \in TextPieces \cup {<<>>} }

UnescapeInputs == UNION { BSeq(UnescAlphabet, MaxLen), UnicodeEscapes, Texts(MaxPieces) }

\* the decimal digits of a natural number
RECURSIVE Decimal(_)
Decimal(n) ==
    IF n < 10 THEN <<B.d0 + n>> ELSE Decimal(n \div 10) \o <<B.d0 + (n % 10)>>

\* the JSON numeral of an integer
Numeral(n) == IF n < 0 THEN <<B.minus>> \o Decimal(-n) ELSE Decimal(n)

MinusZero == <<B.minus, B.d0>>

\* a literal: its text, and the value a test would expect of it
Lit(text, val) == [text |-> text, val |-> val]

NumeralValues(kind) ==
    (-SmallMax..SmallMax)
        \cup { IntMax[kind] + d : d \in -Window..Window }
        \cup { IntMin[kind] + d : d \in -Window..Window }

Numerals == { Lit(Numeral(n), n) : n \in UNION { NumeralValues(k) : k \in IntKinds } }
                \cup {Lit(MinusZero, 0)}

BoolLiterals == { Lit(<<116, 114, 117, 101>>, TRUE),
                  Lit(<<102, 97, 108, 115, 101>>, FALSE) }

IntLiterals(kind) ==
    { Lit(Numeral(n), n) : n \in {0, 7, 10, IntMin[kind], IntMax[kind]} }
        \cup (IF kind \in UnsignedKinds THEN {} ELSE {Lit(MinusZero, 0), Lit(Numeral(-1), -1)})

\* float literals put together from a sign, an integer part, a fraction and
\* an exponent; the value is worked out from the parts
FloatLiterals ==
    { Lit((IF neg THEN <<B.minus>> ELSE <<>>) \o Decimal(ip)
            \o (IF fr = <<>> THEN <<>> ELSE <<B.dot>> \o fr)
            \o ex.text,
          Normal(neg, DecFold(Decimal(ip) \o fr, 0), ex.val - Len(fr))) :
        neg \in BOOLEAN,
        ip \in {0, 1, 17},
        fr \in {<<>>, <<B.d0>>, <<B.d0 + 2>>, <<B.d0, B.d0 + 5>>},
        ex \in { Lit(<<>>, 0), Lit(<<B.e, B.d0 + 3>>, 3),
                  Lit(<<B.e, B.minus, B.d0 + 3>>, -3),
                  Lit(<<B.E, B.plus, B.d1, B.d0>>, 10) } }

\* the pieces of a string body: their text, and the bytes they stand for
StrTokens ==
    { Lit(<<B.x>>, <<B.x>>),
      Lit(<<B.sp>>, <<B.sp>>),
      Lit(<<B.backslash, B.backslash>>, <<B.backslash>>),
      Lit(<<B.backslash, B.slash>>, <<B.slash>>),
      Lit(<<B.backslash, B.quote>>, <<B.quote>>),
      Lit(<<B.backslash, B.u, B.d0, B.d0, B.d0 + 4, B.d1>>, <<B.A>>),
      Lit(<<B.backslash, B.u, B.d0, B.d0, B.D, B.d8>>, <<195, 152>>),
      Lit(<<B.backslash, B.u, B.d0 + 2, B.d0 + 6, B.d0 + 3, B.A>>,
          <<226, 152, 186>>),
      Lit(<<226, 152, 186>>, <<226, 152, 186>>) }

RECURSIVE StrBodies(_)
StrBodies(n) ==
    IF n = 0 THEN {Lit(<<>>, <<>>)}
    ELSE { Lit(b.text \o t.text, b.val \o t.val) :
             b \in StrBodies(n - 1), t \in StrTokens \cup {Lit(<<>>, <<>>)} }

StrLiterals ==
    { Lit(<<B.quote>> \o b.text \o <<B.quote>>, b.val) : b \in StrBodies(MaxTokens) }

ScalarKinds == {"bool", "str"} \cup IntKinds \cup FloatKinds

Literals(kind) ==
    IF kind = "bool" THEN BoolLiterals
    ELSE IF kind = "str" THEN StrLiterals
    ELSE IF kind \in IntKinds THEN IntLiterals(kind)
    ELSE FloatLiterals

LeadPads == BSeq({B.sp, B.lf}, MaxPad)

Tails == BSeq({B.sp, B.tab, B.cr, B.x}, MaxTail)

\* what follows a boolean literal that was cut short
BrokenTails == {<<>>, <<B.sp>>, <<B.x>>, <<B.e>>, <<B.a, B.e>>}

JunkAlphabet == {B.sp, B.minus, B.d0, B.d1, B.t, B.r, B.u, B.e, B.quote, B.x}

\* what a test expects of an input built around a literal: the literal's
\* value, and where the literal lies in the buffer
Expect(tag, val, from, to) == [tag |-> tag, val |-> val, from |-> from, to |-> to]

-----------------------------------------------------------------------------
(* The parse as a state machine. *)

\* self.slice
SelfSlice == Slice(buf, base, Len(buf))

\* The harness of string_unescaper.rs's tests: the unescaper is called on
\* the whole buffer.
InitUnescape ==
    /\ input \in UnescapeInputs
    /\ buf = input
    /\ base = 0
    /\ index = 0
    /\ shape = [kind |-> "unescape"]
    /\ pc = "unescape"
    /\ w = 0
    /\ r = 0
    /\ stack = <<>>
    /\ value = NoValue
    /\ result = Pending
    /\ expect = NoValue

\* One iteration of the unescaper's loop on self.slice.  A return of Ok goes
\* back to the caller (parse_str, or the harness); an Err is propagated by
\* every `?` up to the entry function; the unwrap's panic ends the call.
\* UnescapeStep with the unescaper's offsets taken from the start of the
\* buffer, not of self.slice
UnescapeStepWholeBuffer ==
    /\ pc = "unescape"
    /\ LET o == UnescapeIter(buf, w, base + r)
       IN  /\ buf' = o.buffer
           /\ w' = o.w
           /\ r' = o.r - base
           /\ IF o.ret.tag = "Loop"
              THEN pc' = "unescape" /\ result' = result
              ELSE IF o.ret.tag = "Ok" /\ shape.kind # "unescape"
              THEN pc' = "parse_str" /\ result' = result
              ELSE pc' = "done" /\ result' = o.ret
    /\ UNCHANGED <<input, base, index, shape, stack, value, expect>>

UnescapeStep ==
    /\ pc = "unescape"
    /\ LET o == UnescapeIter(SelfSlice, w, r)
       IN  /\ buf' = SubSeq(buf, 1, base) \o o.buffer
           /\ w' = o.w
           /\ r' = o.r
           /\ IF o.ret.tag = "Loop"
              THEN pc' = "unescape" /\ result' = result
              ELSE IF o.ret.tag = "Ok" /\ shape.kind # "unescape"
              THEN pc' = "parse_str" /\ result' = result
              ELSE pc' = "done" /\ result' = o.ret
    /\ UNCHANGED <<input, base, index, shape, stack, value, expect>>

NextUnescape == UnescapeStep

SpecUnescape == InitUnescape /\ [][NextUnescape]_vars

-----------------------------------------------------------------------------
(* from_slice on a scalar T. *)

\* Deserializer::new(v), before de::Deserialize::deserialize(&mut de)
Start(kind, text, exp) ==
    /\ input = text
    /\ buf = text
    /\ base = 0
    /\ index = 0
    /\ shape = kind
    /\ pc = "value"
    /\ w = 0
    /\ r = 0
    /\ stack = <<>>
    /\ value = NoValue
    /\ result = Pending
    /\ expect = exp

InitScalar ==
    \/ \E kind \in ScalarKinds, text \in BSeq(JunkAlphabet, MaxJunk) :
          Start([kind |-> kind], text, NoValue)
    \/ \E kind \in IntKinds, lit \in Numerals, tail \in {<<>>, <<B.sp>>} :
          Start([kind |-> kind], lit.text \o tail,
                Expect("Numeral", lit.val, 0, Len(lit.text)))
    \/ \E kind \in ScalarKinds :
          \E lit \in Literals(kind), pad \in LeadPads, tail \in Tails :
             Start([kind |-> kind], pad \o lit.text \o tail,
                   Expect("Literal", lit.val, Len(pad), Len(pad) + Len(lit.text)))
    \/ \E lit \in BoolLiterals, pad \in LeadPads, tail \in BrokenTails :
          \E k \in 1..(Len(lit.text) - 1) :
             Start([kind |-> "bool"], pad \o SubSeq(lit.text, 1, k) \o tail, NoValue)

\* the innermost open container
Top == stack[Len(stack)]

\* the shape the binding layer asks the deserializer for at the cursor
CurShape == IF stack = <<>> THEN shape ELSE Top.elem

Cur == CurShape.kind

\* Fail with a recovery: inside a container the value that failed is left
\* out and the visitor goes on
FailSkipsElement(e) ==
    /\ pc' = IF stack = <<>> THEN "done"
             ELSE IF Top.kind = "seq" THEN "visit_seq" ELSE "visit_map"
    /\ result' = IF stack = <<>> THEN e ELSE result
    /\ UNCHANGED <<value, stack>>

\* an Err is handed up by every `?` to the entry function, which returns it
Fail(e) ==
    /\ pc' = "done"
    /\ result' = e
    /\ UNCHANGED <<value, stack>>

\* an open container: what its visitor has taken so far and asks for next
Frame(kind, want, elem, val, fields) ==
    [kind |-> kind, first |-> TRUE, taken |-> 0, want |-> want, elem |-> elem,
     val |-> val, fields |-> fields, phase |-> "key", key |-> NoValue,
     items |-> <<>>]

\* the fields a map visitor knows: every key (a map type), or the names of a
\* struct
AnyField == [any |-> TRUE, names |-> {}]

Fields(names) == [any |-> FALSE, names |-> names]

\* what the visitor of the map f asks for as the value of the key named key:
\* the value's type, or IgnoredAny for a field the struct does not have
FieldShape(f, key) ==
    IF f.fields.any \/ key \in f.fields.names THEN f.val ELSE [kind |-> "ignored"]

\* the unit value of IgnoredAny's visitor
Unit == [tag |-> "Unit"]

\* the `want` of a visitor that takes elements until the adapter has no more
Unbounded == -1

\* the visitor takes the value v and the handler returns into the containers
\* stk: at top level the deserialize call of from_slice returns
ReturnTo(stk, v) ==
    /\ result' = result
    /\ IF stk = <<>>
       THEN pc' = "end" /\ value' = v /\ stack' = stk
       ELSE LET f == stk[Len(stk)]
            IN  /\ value' = value
                /\ IF f.kind = "ignored"
                   THEN pc' = "ignored_visit" /\ stack' = stk
                   ELSE IF f.kind = "seq"
                   THEN /\ pc' = "visit_seq"
                        /\ stack' = [stk EXCEPT ![Len(stk)] =
                              [f EXCEPT !.items = Append(@, v), !.taken = @ + 1]]
                   ELSE IF f.phase = "key"
                   THEN /\ pc' = "map_value"
                        /\ stack' = [stk EXCEPT ![Len(stk)] =
                              [f EXCEPT !.key = v, !.phase = "value",
                                        !.elem = FieldShape(f, Slice(buf, v.from, v.to))]]
                   ELSE /\ pc' = "visit_map"
                        /\ stack' = [stk EXCEPT ![Len(stk)] =
                              [f EXCEPT !.items = Append(@, <<f.key, v>>),
                                        !.taken = @ + 1, !.phase = "key",
                                        !.elem = [kind |-> "str"]]]

Return(v) == ReturnTo(stack, v)

\* a handler that leaves outcome o
Handle(o) ==
    /\ index' = o.index
    /\ IF o.ret.tag = "Ok" THEN Return(o.ret.val) ELSE Fail(o.ret)
    /\ UNCHANGED <<input, buf, base, shape, w, r, expect>>

DeserializeBool ==
    /\ pc = "value"
    /\ Cur = "bool"
    /\ Handle(deserialize_bool(SelfSlice, index))

DeserializeUnsigned ==
    /\ pc = "value"
    /\ Cur \in UnsignedKinds
    /\ Handle(deserialize_unsigned(SelfSlice, index, Cur))

DeserializeSigned ==
    /\ pc = "value"
    /\ Cur \in IntKinds \ UnsignedKinds
    /\ Handle(deserialize_signed(SelfSlice, index, Cur))

DeserializeFloat ==
    /\ pc = "value"
    /\ Cur \in FloatKinds
    /\ Handle(deserialize_float(SelfSlice, index))

\* deserialize_str up to the unescaper's call inside parse_str: the quote is
\* eaten, consume_passed re-bases self.slice just past it
DeserializeStr ==
    /\ pc = "value"
    /\ Cur = "str"
    /\ LET o == deserialize_str(SelfSlice, index)
       IN  IF o.ret.tag = "Ok"
           THEN /\ base' = base + o.index
                /\ index' = 0
                /\ w' = 0
                /\ r' = 0
                /\ pc' = "unescape"
                /\ UNCHANGED <<value, stack, result>>
           ELSE /\ index' = o.index
                /\ Fail(o.ret)
                /\ UNCHANGED <<base, w, r>>
    /\ UNCHANGED <<input, buf, shape, expect>>

\* the borrowed string parse_str returns: a region [from, to) of the buffer
Str(from, to) == [tag |-> "Str", from |-> from, to |-> to]

\* the bytes a borrowed string shows now
StrBytes(v) == Slice(buf, v.from, v.to)

\* ParseStr with self.index = quote, the subtraction of string_end forgotten
ParseStrIndexIsQuote ==
    /\ pc = "parse_str"
    /\ base' = base + w
    /\ index' = r
    /\ IF IsUtf8(Slice(SelfSlice, 0, w))
       THEN Return(Str(base, base + w))
       ELSE Fail(Err("InvalidUnicodeCodePoint"))
    /\ UNCHANGED <<input, buf, shape, w, r, expect>>

\* ParseStr returning the bytes up to the closing quote
ParseStrReturnsToQuote ==
    /\ pc = "parse_str"
    /\ base' = base + w
    /\ index' = r - w
    /\ IF IsUtf8(Slice(SelfSlice, 0, w))
       THEN Return(Str(base, base + r - 1))
       ELSE Fail(Err("InvalidUnicodeCodePoint"))
    /\ UNCHANGED <<input, buf, shape, w, r, expect>>

\* parse_str after the unescaper returned (string_end, quote) = (w, r)
ParseStr ==
    /\ pc = "parse_str"
    /\ base' = base + w
    /\ index' = r - w
    /\ IF IsUtf8(Slice(SelfSlice, 0, w))
       THEN Return(Str(base, base + w))
       ELSE Fail(Err("InvalidUnicodeCodePoint"))
    /\ UNCHANGED <<input, buf, shape, w, r, expect>>

\* from_slice after the value: de.end()?; Ok(value)
End ==
    /\ pc = "end"
    /\ LET o == end(SelfSlice, index)
       IN  /\ index' = o.index
           /\ result' = IF o.ret.tag = "Ok" THEN Ok(value) ELSE o.ret
    /\ pc' = "done"
    /\ UNCHANGED <<input, buf, base, shape, w, r, stack, value, expect>>

NextScalar ==
    \/ DeserializeBool
    \/ DeserializeUnsigned
    \/ DeserializeSigned
    \/ DeserializeFloat
    \/ DeserializeStr
    \/ UnescapeStep
    \/ ParseStr
    \/ End

SpecScalar == InitScalar /\ [][NextScalar]_vars

-----------------------------------------------------------------------------
(* from_slice on a sequence: a tuple or an array of `want` elements. *)

\* k elements 10, 20, ... with sep between them
RECURSIVE Elements(_, _)
Elements(k, sep) ==
    IF k = 0 THEN <<>>
    ELSE IF k = 1 THEN Numeral(10)
    ELSE Elements(k - 1, sep) \o sep \o Numeral(10 * k)

ArrayText(k, sep) == <<B.lbracket>> \o Elements(k, sep) \o <<B.rbracket>>

SeqAlphabet == {B.lbracket, B.rbracket, B.comma, B.sp, B.d1}

SeqShape(want) == [kind |-> "seq", want |-> want, elem |-> [kind |-> "u8"]]

InitSeq ==
    \/ \E want \in 0..MaxArity, body \in BSeq(SeqAlphabet, MaxSeqBody) :
          Start(SeqShape(want), <<B.lbracket>> \o body, NoValue)
    \/ \E want \in 0..MaxArity, text \in {<<>>, <<B.sp, B.lbracket, B.rbracket>>, <<B.d1>>} :
          Start(SeqShape(want), text, NoValue)
    \/ \E want \in 0..MaxArity, k \in 0..MaxElems,
          sep \in {<<B.comma>>, <<B.comma, B.sp>>, <<B.sp, B.comma>>} :
          Start(SeqShape(want), ArrayText(k, sep),
                Expect("Array", k, 0, Len(ArrayText(k, sep))))

\* deserialize_seq up to visitor.visit_seq(SeqAccess::new(self))
DeserializeSeq ==
    /\ pc = "value"
    /\ Cur = "seq"
    /\ LET o == deserialize_seq(SelfSlice, index)
       IN  /\ index' = o.index
           /\ IF o.ret.tag = "Ok"
              THEN /\ pc' = "visit_seq"
                   /\ stack' = Append(stack, Frame("seq", CurShape.want, CurShape.elem, CurShape.elem, AnyField))
                   /\ UNCHANGED <<value, result>>
              ELSE Fail(o.ret)
    /\ UNCHANGED <<input, buf, base, shape, w, r, expect>>

\* the visitor of a tuple asks the adapter for one more element; when the
\* adapter has none the visitor fails with invalid_length, a custom error
SeqNextElement ==
    /\ pc = "visit_seq"
    /\ Top.want = Unbounded \/ Top.taken < Top.want
    /\ LET o == next_element(SelfSlice, index, Top.first)
       IN  /\ index' = o.index
           /\ IF o.ret.tag = "Ok"
              THEN /\ pc' = "value"
                   /\ stack' = [stack EXCEPT ![Len(stack)].first = FALSE]
                   /\ UNCHANGED <<value, result>>
              ELSE IF o.ret.tag = "NoMore" /\ Top.want = Unbounded
              THEN pc' = "end_seq" /\ UNCHANGED <<value, result, stack>>
              ELSE IF o.ret.tag = "NoMore"
              THEN Fail(Err("CustomError"))
              ELSE Fail(o.ret)
    /\ UNCHANGED <<input, buf, base, shape, w, r, expect>>

\* the visitor has its elements and returns
VisitSeqDone ==
    /\ pc = "visit_seq"
    /\ Top.taken = Top.want
    /\ pc' = "end_seq"
    /\ UNCHANGED <<input, buf, base, index, shape, w, r, stack, value, result, expect>>

\* deserialize_seq after the visitor: self.end_seq()?; Ok(ret)
EndSeq ==
    /\ pc = "end_seq"
    /\ LET o == end_seq(SelfSlice, index)
       IN  /\ index' = o.index
           /\ IF o.ret.tag = "Ok"
              THEN ReturnTo(SubSeq(stack, 1, Len(stack) - 1), Top.items)
              ELSE Fail(o.ret)
    /\ UNCHANGED <<input, buf, base, shape, w, r, expect>>

NextSeq ==
    \/ DeserializeSeq
    \/ SeqNextElement
    \/ DeserializeUnsigned
    \/ VisitSeqDone
    \/ EndSeq
    \/ End

SpecSeq == InitSeq /\ [][NextSeq]_vars

-----------------------------------------------------------------------------
(* from_slice on a map whose visitor takes up to `want` entries. *)

EntryForms ==
    { <<B.quote, B.a, B.quote, B.colon, B.d1>>,
      <<B.quote, B.e, B.quote, B.sp, B.colon, B.sp, B.d8>>,
      <<B.quote, B.a, B.quote, B.sp, B.d1>> }

\* objects' bodies of k entries with sep between them
RECURSIVE Entries(_, _)
Entries(k, sep) ==
    IF k = 0 THEN {<<>>}
    ELSE IF k = 1 THEN EntryForms
    ELSE {es \o sep \o en : es \in Entries(k - 1, sep), en \in EntryForms}

MapAlphabet == {B.rbrace, B.comma, B.sp, B.x, B.quote, B.colon}

MapShape(want) ==
    [kind |-> "map", want |-> want, elem |-> [kind |-> "u8"], fields |-> AnyField]

InitMap ==
    \/ \E want \in 0..(MaxEntries + 1), lead \in {<<>>, <<B.sp>>}, k \in 0..MaxEntries,
          sep \in {<<B.comma>>, <<B.sp, B.comma, B.sp>>},
          tail \in BSeq(MapAlphabet, MaxMapTail) :
          \E body \in Entries(k, sep) :
             Start(MapShape(want), lead \o <<B.lbrace>> \o body \o tail, NoValue)
    \/ \E want \in 0..(MaxEntries + 1), text \in {<<>>, <<B.sp>>, <<B.lbracket>>} :
          Start(MapShape(want), text, NoValue)

\* deserialize_map up to visitor.visit_map(MapAccess::new(self))
DeserializeMap ==
    /\ pc = "value"
    /\ Cur = "map"
    /\ LET o == deserialize_map(SelfSlice, index)
       IN  /\ index' = o.index
           /\ IF o.ret.tag = "Ok"
              THEN /\ pc' = "visit_map"
                   /\ stack' = Append(stack, Frame("map", CurShape.want, [kind |-> "str"], CurShape.elem,
                                                CurShape.fields))
                   /\ UNCHANGED <<value, result>>
              ELSE Fail(o.ret)
    /\ UNCHANGED <<input, buf, base, shape, w, r, expect>>

\* the visitor asks the adapter for one more key; when the adapter has none
\* the visitor returns what it has
MapNextKey ==
    /\ pc = "visit_map"
    /\ Top.want = Unbounded \/ Top.taken < Top.want
    /\ LET o == next_key(SelfSlice, index, Top.first)
       IN  /\ index' = o.index
           /\ IF o.ret.tag = "Ok"
              THEN /\ pc' = "value"
                   /\ stack' = [stack EXCEPT ![Len(stack)].first = FALSE]
                   /\ UNCHANGED <<value, result>>
              ELSE IF o.ret.tag = "NoMore"
              THEN /\ pc' = "end_map"
                   /\ UNCHANGED <<value, result, stack>>
              ELSE Fail(o.ret)
    /\ UNCHANGED <<input, buf, base, shape, w, r, expect>>

\* the visitor asks the adapter for the value of the key it took
MapNextValue ==
    /\ pc = "map_value"
    /\ LET o == parse_object_colon(SelfSlice, index)
       IN  /\ index' = o.index
           /\ IF o.ret.tag = "Ok"
              THEN pc' = "value" /\ UNCHANGED <<value, result, stack>>
              ELSE Fail(o.ret)
    /\ UNCHANGED <<input, buf, base, shape, w, r, expect>>

\* the visitor has the entries it wants and returns
VisitMapDone ==
    /\ pc = "visit_map"
    /\ Top.taken = Top.want
    /\ pc' = "end_map"
    /\ UNCHANGED <<input, buf, base, index, shape, w, r, stack, value, result, expect>>

\* deserialize_map after the visitor: self.end_map()?; Ok(ret)
EndMap ==
    /\ pc = "end_map"
    /\ LET o == end_map(SelfSlice, index)
       IN  /\ index' = o.index
           /\ IF o.ret.tag = "Ok"
              THEN ReturnTo(SubSeq(stack, 1, Len(stack) - 1), Top.items)
              ELSE Fail(o.ret)
    /\ UNCHANGED <<input, buf, base, shape, w, r, expect>>

NextMap ==
    \/ DeserializeMap
    \/ MapNextKey
    \/ DeserializeStr
    \/ UnescapeStep
    \/ ParseStr
    \/ MapNextValue
    \/ DeserializeUnsigned
    \/ VisitMapDone
    \/ EndMap
    \/ End

SpecMap == InitMap /\ [][NextMap]_vars

-----------------------------------------------------------------------------
(* from_slice on a struct with unknown fields, and on IgnoredAny itself. *)

\* the shapes IgnoredAny's visitor is driven through: it takes every element
\* and every entry, and asks for IgnoredAny again inside
IgnoredShape(kind) ==
    IF kind = "str" THEN [kind |-> "str"]
    ELSE IF kind = "seq"
    THEN [kind |-> "seq", want |-> Unbounded, elem |-> [kind |-> "ignored"]]
    ELSE [kind |-> "map", want |-> Unbounded, elem |-> [kind |-> "ignored"],
          fields |-> Fields({})]

\* deserialize_ignored_any: a bare token is skipped here, a string, array or
\* object by the handler of its kind
DeserializeIgnoredAny ==
    /\ pc = "value"
    /\ Cur = "ignored"
    /\ LET o == deserialize_ignored_any(SelfSlice, index)
       IN  /\ index' = o.index
           /\ IF o.ret.tag = "Delegate"
              THEN /\ pc' = "value"
                   /\ stack' = Append(stack, Frame("ignored", 1, IgnoredShape(o.ret.kind),
                                                   IgnoredShape(o.ret.kind), AnyField))
                   /\ UNCHANGED <<value, result>>
              ELSE IF o.ret.tag = "Ok" THEN Return(o.ret.val)
              ELSE Fail(o.ret)
    /\ UNCHANGED <<input, buf, base, shape, w, r, expect>>

\* IgnoredAny's visitor got the string, the array or the object and returns
\* its unit value
IgnoredVisit ==
    /\ pc = "ignored_visit"
    /\ ReturnTo(SubSeq(stack, 1, Len(stack) - 1), Unit)
    /\ UNCHANGED <<input, buf, base, index, shape, w, r, expect>>

\* a struct of two fields, `a` and `e`
StructShape ==
    [kind |-> "map", want |-> Unbounded, elem |-> [kind |-> "u8"],
     fields |-> Fields({<<B.a>>, <<B.e>>})]

Key(name) == <<B.quote>> \o name \o <<B.quote>>

KnownEntries ==
    { Lit(Key(<<B.a>>) \o <<B.colon, B.d1>>, <<<<B.a>>, 1>>),
      Lit(Key(<<B.e>>) \o <<B.colon, B.sp, B.d8>>, <<<<B.e>>, 8>>) }

\* values of fields the struct does not have: numbers, literals, strings
\* with delimiters and escaped quotes inside, arrays, objects, and tokens
\* that are no JSON
IgnoredValues ==
    { <<B.d8, B.d0>>,
      <<B.minus, B.d1, B.d0>>,
      <<B.t, B.r, B.u, B.e>>,
      Key(<<B.x>>),
      Key(<<B.rbracket, B.comma, B.rbrace>>),
      Key(<<B.backslash, B.quote, B.comma>>),
      <<B.lbracket, B.rbracket>>,
      <<B.lbracket, B.sp, B.rbracket>>,
      <<B.lbracket>> \o Key(<<B.x>>) \o <<B.comma, B.d1, B.rbracket>>,
      <<B.lbracket, B.lbracket, B.rbracket, B.comma, B.lbrace, B.rbrace, B.rbracket>>,
      <<B.lbrace, B.rbrace>>,
      <<B.lbrace>> \o Key(<<B.x>>) \o <<B.colon, B.lbracket, B.d1, B.rbracket, B.rbrace>>,
      <<B.lbrace>> \o Key(<<B.x>>) \o <<B.sp, B.colon>> \o Key(<<B.rbrace>>) \o <<B.rbrace>>,
      <<B.x, B.minus, B.x>>,
      <<B.x, B.quote, B.x>>,
      <<B.d1, B.sp, B.d1>>,
      <<B.x, B.lbracket, B.lbrace, B.colon>> }

UnknownEntries ==
    { Lit(Key(<<B.z>>) \o <<B.colon>> \o pad \o v \o pad, <<>>) :
        v \in IgnoredValues, pad \in {<<>>, <<B.sp>>} }

\* the bodies of objects of up to n entries: their text, and the entries of
\* the known fields in them
RECURSIVE StructBodies(_)
StructBodies(n) ==
    IF n = 0 THEN {Lit(<<>>, <<>>)}
    ELSE { IF en.text = <<>> THEN b
           ELSE Lit((IF b.text = <<>> THEN <<>> ELSE b.text \o <<B.comma>>) \o en.text,
                    IF en.val = <<>> THEN b.val ELSE Append(b.val, en.val)) :
             b \in StructBodies(n - 1),
             en \in KnownEntries \cup UnknownEntries \cup {Lit(<<>>, <<>>)} }

StructTexts ==
    { Lit(<<B.lbrace>> \o b.text
            \o (IF b.text = <<>> \/ en.text = <<>> THEN <<>> ELSE <<B.comma>>)
            \o en.text \o <<B.rbrace>>,
          IF en.text = <<>> THEN b.val ELSE Append(b.val, en.val)) :
        b \in StructBodies(MaxIgnEntries), en \in KnownEntries \cup {Lit(<<>>, <<>>)} }

IgnAlphabet ==
    {B.quote, B.lbracket, B.rbracket, B.lbrace, B.rbrace, B.comma, B.colon, B.sp, B.x}

InitIgnore ==
    \/ \E t \in StructTexts :
          Start(StructShape, t.text, Expect("Object", t.val, 0, Len(t.text)))
    \/ \E text \in BSeq(IgnAlphabet, MaxIgnJunk) :
          Start([kind |-> "ignored"], text, NoValue)

NextIgnore ==
    \/ DeserializeMap
    \/ MapNextKey
    \/ DeserializeStr
    \/ UnescapeStep
    \/ ParseStr
    \/ MapNextValue
    \/ DeserializeUnsigned
    \/ DeserializeIgnoredAny
    \/ IgnoredVisit
    \/ DeserializeSeq
    \/ SeqNextElement
    \/ EndSeq
    \/ EndMap
    \/ End

SpecIgnore == InitIgnore /\ [][NextIgnore]_vars

-----------------------------------------------------------------------------
(* from_slice on a borrowed string, over the buffers the unescaper is      *)
(* tried on. *)

InitStr ==
    \E body \in UnescapeInputs, tail \in {<<>>, <<B.sp>>} :
        Start([kind |-> "str"], <<B.quote>> \o body \o tail, NoValue)

NextStr ==
    \/ DeserializeStr
    \/ UnescapeStep
    \/ ParseStr
    \/ End

SpecStr == InitStr /\ [][NextStr]_vars

-----------------------------------------------------------------------------
(* from_slice on an array of borrowed strings. *)

\* arrays of up to n string literals: their text.  A literal has up to two
\* pieces, each a plain byte, an escaped quote, the escape of a character of
\* two bytes, or a character of three bytes
RECURSIVE StrArrays(_)
StrArrays(n) ==
    LET pieces ==
            { t \in StrTokens :
                t.text \in { <<B.x>>, <<B.backslash, B.quote>>,
                             <<B.backslash, B.u, B.d0, B.d0, B.D, B.d8>>,
                             <<226, 152, 186>> } } \cup {Lit(<<>>, <<>>)}
        literals == { <<B.quote>> \o p.text \o q.text \o <<B.quote>> : p, q \in pieces }
    IN  IF n = 0 THEN {<<>>}
        ELSE { IF lit = <<>> THEN t ELSE (IF t = <<>> THEN <<>> ELSE t \o sep) \o lit :
                 t \in StrArrays(n - 1), lit \in literals \cup {<<>>},
                 sep \in {<<B.comma>>, <<B.sp, B.comma, B.sp>>} }

StrsShape == [kind |-> "seq", want |-> Unbounded, elem |-> [kind |-> "str"]]

InitStrs ==
    \E t \in StrArrays(MaxStrs), tail \in {<<B.rbracket>>, <<>>} :
        Start(StrsShape, <<B.lbracket>> \o t \o tail, NoValue)

NextStrs ==
    \/ DeserializeSeq
    \/ SeqNextElement
    \/ DeserializeStr
    \/ UnescapeStep
    \/ ParseStr
    \/ EndSeq
    \/ End

SpecStrs == InitStrs /\ [][NextStrs]_vars

-----------------------------------------------------------------------------
(* from_slice on every shape above. *)

InitParse == InitScalar \/ InitStr \/ InitStrs \/ InitSeq \/ InitMap \/ InitIgnore

\* every handler above, each once
NextParse ==
    \/ NextScalar
    \/ DeserializeSeq
    \/ SeqNextElement
    \/ VisitSeqDone
    \/ EndSeq
    \/ DeserializeMap
    \/ MapNextKey
    \/ MapNextValue
    \/ VisitMapDone
    \/ EndMap
    \/ DeserializeIgnoredAny
    \/ IgnoredVisit

SpecParse == InitParse /\ [][NextParse]_vars

-----------------------------------------------------------------------------
(* from_slice on the containers: tuples, maps and arrays of strings. *)

InitNested == InitSeq \/ InitMap \/ InitStrs

NextNested ==
    \/ NextSeq
    \/ DeserializeMap
    \/ MapNextKey
    \/ MapNextValue
    \/ VisitMapDone
    \/ EndMap
    \/ DeserializeStr
    \/ UnescapeStep
    \/ ParseStr

SpecNested == InitNested /\ [][NextNested]_vars

-----------------------------------------------------------------------------
(* Where the unescaper's scan stands. *)

\* the next byte to read is a backslash
AtBackslash == r < Len(SelfSlice) /\ At(SelfSlice, r) = B.backslash

\* the next two bytes to read are `\u`
AtUnicodeEscape ==
    AtBackslash /\ r + 1 < Len(SelfSlice) /\ At(SelfSlice, r + 1) = B.u

\* the unescaper returned Ok in the step just taken
UnescapeSucceeded ==
    \/ pc = "parse_str"
    \/ pc = "done" /\ shape.kind = "unescape" /\ result.tag = "Ok"

-----------------------------------------------------------------------------
(* What is left of the buffer at the cursor. *)

Rest == Slice(buf, base + index, Len(buf))

AllWhitespace(s) == \A i \in 1..Len(s) : s[i] \in {B.sp, B.tab, B.lf, B.cr}

\* v is the value val a test expects: a borrowed string by its bytes
ValueIs(v, val) ==
    IF shape.kind = "str" THEN v.tag = "Str" /\ StrBytes(v) = val ELSE v = val

-----------------------------------------------------------------------------
(* C1: from_slice returns Ok only from the end check after the value, and  *)
(* only when every byte left is space, tab, LF or CR; when another byte is *)
(* left the result is TrailingCharacters.                                  *)
C1_OnlyWhitespaceMayRemain ==
    [][/\ result'.tag = "Ok" =>
            pc = "end" /\ AllWhitespace(Rest) /\ result' = Ok(value)
       /\ (pc = "end" /\ AllWhitespace(Rest)) => result' = Ok(value)
       /\ (pc = "end" /\ ~AllWhitespace(Rest)) => result' = Err("TrailingCharacters")
      ]_vars

\* a literal was decoded, whitespace after it was skipped, and a byte that is
\* no whitespace was found
C1_Witness ==
    /\ pc = "done"
    /\ expect.tag = "Literal"
    /\ result = Err("TrailingCharacters")
    /\ base + index > expect.to

\* the input is a literal with whitespace only around it
PaddedLiteral ==
    /\ expect.tag = "Literal"
    /\ AllWhitespace(Slice(input, expect.to, Len(input)))

(* C2: a valid boolean, integer, float or string literal with any amount   *)
(* of whitespace before and after it (none included) parses to the         *)
(* expected value, and the cursor stops just after the literal.            *)
C2_PaddedLiteralsParse ==
    PaddedLiteral =>
        /\ pc = "end" => base + index = expect.to /\ ValueIs(value, expect.val)
        /\ pc = "done" => result.tag = "Ok" /\ ValueIs(result.val, expect.val)

\* the same, but for a float literal that ends the buffer
C2_ExceptFloatAtEnd ==
    (PaddedLiteral /\ ~(shape.kind \in FloatKinds /\ expect.to = Len(input))) =>
        /\ pc = "end" => base + index = expect.to /\ ValueIs(value, expect.val)
        /\ pc = "done" => result.tag = "Ok" /\ ValueIs(result.val, expect.val)

\* a float literal that ends the buffer is refused
C2_FloatAtEnd ==
    (PaddedLiteral /\ shape.kind \in FloatKinds /\ expect.to = Len(input)
        /\ pc = "done")
    => result = Err("EofWhileParsingNumber")

InRange(n, kind) == n \in IntMin[kind]..IntMax[kind]

(* C3, as claimed: a numeral parses to its value when the value is in the  *)
(* type's range (`-0` yields 0) and to InvalidNumber when it is not.       *)
C3_Original ==
    (expect.tag = "Numeral" /\ pc = "done") =>
        IF InRange(expect.val, shape.kind)
        THEN result = Ok(expect.val)
        ELSE result = Err("InvalidNumber")

(* C3, amended: a numeral parses to its value when the value is in the     *)
(* type's range (the minimum of a signed type included, and `-0` for a     *)
(* signed type, which yields 0) and to InvalidNumber when it is not; an    *)
(* unsigned type refuses every numeral that starts with `-`, `-0` too,     *)
(* with InvalidNumber.  No other value is ever returned.                   *)
C3_IntegersExactOrInvalidNumber ==
    (expect.tag = "Numeral" /\ pc = "done") =>
        IF shape.kind \in UnsignedKinds /\ At(input, 0) = B.minus
        THEN result = Err("InvalidNumber")
        ELSE IF InRange(expect.val, shape.kind)
        THEN result = Ok(expect.val)
        ELSE result = Err("InvalidNumber")

\* the minimum of a signed type was parsed
C3_Witness ==
    /\ pc = "done"
    /\ expect.tag = "Numeral"
    /\ shape.kind = "i16"
    /\ expect.val = IntMin["i16"]
    /\ result = Ok(expect.val)

-----------------------------------------------------------------------------
\* the offset of the first byte of self.slice at or after i that is no
\* whitespace, the length of the slice when there is none
Significant(i) ==
    LET sl == SelfSlice
        stops == {k \in i..Len(sl) : k = Len(sl) \/ At(sl, k) \notin {B.sp, B.tab, B.lf, B.cr}}
    IN  CHOOSE k \in stops : \A m \in stops : k <= m

\* the test of an array of expect.val elements against a tuple of fewer
MoreThanArity == expect.tag = "Array" /\ expect.val > shape.want

(* C4: the terminator check of a sequence, run when the visitor has        *)
(* stopped taking elements, looks at the next significant byte: `]` is     *)
(* consumed and the sequence succeeds; `,` then optional whitespace then   *)
(* `]` is TrailingComma; `,` then anything else is TrailingCharacters; any *)
(* other byte is TrailingCharacters; the end of input is                   *)
(* EofWhileParsingList. So an array of more elements than the arity fails  *)
(* with TrailingCharacters.                                                *)
C4_SeqTerminator ==
    [][/\ (MoreThanArity /\ pc' = "done") =>
            pc = "end_seq" /\ result' = Err("TrailingCharacters")
       /\ pc = "end_seq" =>
         LET sl == SelfSlice
             i  == Significant(index)
             j  == Significant(i + 1)
         IN  /\ i = Len(sl) => pc' = "done" /\ result' = Err("EofWhileParsingList")
             /\ (i < Len(sl) /\ At(sl, i) = B.rbracket) =>
                    /\ index' = i + 1
                    /\ pc' = "end"
                    /\ value' = Top.items
                    /\ result' = Pending
             /\ (i < Len(sl) /\ At(sl, i) = B.comma) =>
                    /\ pc' = "done"
                    /\ result' = IF j < Len(sl) /\ At(sl, j) = B.rbracket
                                 THEN Err("TrailingComma")
                                 ELSE Err("TrailingCharacters")
             /\ (i < Len(sl) /\ At(sl, i) \notin {B.rbracket, B.comma}) =>
                    pc' = "done" /\ result' = Err("TrailingCharacters")
      ]_vars

\* two elements were taken, and a comma, whitespace and `]` came next
C4_Witness ==
    /\ pc = "done"
    /\ stack # <<>>
    /\ Top.taken = MaxArity
    /\ Top.taken = Top.want
    /\ result = Err("TrailingComma")
    /\ index > 0
    /\ At(SelfSlice, index - 1) = B.sp

-----------------------------------------------------------------------------
(* C5: the terminator check of a map looks at the next significant byte:   *)
(* `}` is consumed and the map succeeds; `,` is TrailingComma whatever     *)
(* follows it; any other byte is TrailingCharacters; the end of input is   *)
(* EofWhileParsingObject. When it fails the cursor stays on the            *)
(* offending byte.                                                         *)
C5_MapTerminator ==
    [][pc = "end_map" =>
         LET sl == SelfSlice
             i  == Significant(index)
         IN  /\ i = Len(sl) =>
                    pc' = "done" /\ result' = Err("EofWhileParsingObject")
             /\ (i < Len(sl) /\ At(sl, i) = B.rbrace) =>
                    /\ index' = i + 1
                    /\ pc' = "end"
                    /\ value' = Top.items
                    /\ result' = Pending
             /\ (i < Len(sl) /\ At(sl, i) = B.comma) =>
                    pc' = "done" /\ result' = Err("TrailingComma") /\ index' = i
             /\ (i < Len(sl) /\ At(sl, i) \notin {B.rbrace, B.comma}) =>
                    pc' = "done" /\ result' = Err("TrailingCharacters") /\ index' = i
      ]_vars

\* the visitor stopped after an entry, and a comma that no `}` follows came
\* next
C5_Witness ==
    /\ pc = "done"
    /\ stack # <<>>
    /\ Top.taken = 1
    /\ Top.taken = Top.want
    /\ result = Err("TrailingComma")
    /\ index + 1 < Len(SelfSlice)
    /\ At(SelfSlice, index) = B.comma
    /\ At(SelfSlice, index + 1) = B.quote

-----------------------------------------------------------------------------
(* C6: in unescape_string_to_termination the write offset never exceeds    *)
(* the read offset, a step changes the buffer only inside the range it     *)
(* wrote, [w, w'), which lies below the read offset the step reaches, the  *)
(* bytes not yet read are still the caller's, and a successful return      *)
(* (w, r) has w <= r - 1 and r <= buffer length.                           *)
C6_WriteBehindRead ==
    [][pc = "unescape" =>
        /\ w <= r
        /\ w' <= r'
        /\ \A i \in 0..(Len(SelfSlice) - 1) :
              /\ At(SelfSlice', i) # At(SelfSlice, i) => i \in w..(w' - 1)
              /\ i >= r' => At(SelfSlice', i) = At(input, base + i)
        /\ UnescapeSucceeded' => w' <= r' - 1 /\ r' <= Len(SelfSlice)
      ]_vars

\* the unescaper succeeded on a buffer whose escapes made the output shorter
\* than the input scanned, and the buffer was changed in place
C6_Witness ==
    /\ shape.kind = "unescape"
    /\ pc = "done"
    /\ result.tag = "Ok"
    /\ w > 0
    /\ w < r - 1
    /\ buf # input

(* C7: for every `\u` followed by four hex digits (surrogates included) the *)
(* unescaper does not panic: the step consumes 6 bytes and writes 1 to 3.  *)
C7_UnicodeEscapeNeverPanics ==
    [][(/\ pc = "unescape"
        /\ AtUnicodeEscape
        /\ Len(SelfSlice) >= r + 6
        /\ \A i \in (r + 2)..(r + 5) : IsHexDigit(At(SelfSlice, i)))
       => /\ result'.tag # "Panic"
          /\ r' = r + 6
          /\ w' - w \in 1..3
      ]_vars

(* C8: when at least four bytes follow `\u` and they are not all hex       *)
(* digits, the unescaper returns InvalidEscape.                            *)
C8_NonHexIsInvalidEscape ==
    [][(/\ pc = "unescape"
        /\ AtUnicodeEscape
        /\ Len(SelfSlice) >= r + 6
        /\ \E i \in (r + 2)..(r + 5) : ~IsHexDigit(At(SelfSlice, i)))
       => result' = Err("InvalidEscape")
      ]_vars

(* C9, as claimed: a backslash that is the last byte of the buffer makes   *)
(* the unescaper return InvalidEscape.                                     *)
C9_Original ==
    [][(pc = "unescape" /\ AtBackslash /\ r = Len(SelfSlice) - 1)
       => result' = Err("InvalidEscape")
      ]_vars

(* C9, amended: a backslash that is the last byte of the buffer, reached   *)
(* by the scan as the start of an escape, makes the unescaper return       *)
(* EofWhileParsingString.                                                  *)
C9_TrailingBackslashIsEof ==
    [][(pc = "unescape" /\ AtBackslash /\ r = Len(SelfSlice) - 1)
       => pc' = "done" /\ result' = Err("EofWhileParsingString")
      ]_vars

\* the scan ended on a final backslash that follows a plain byte
C9_Witness ==
    /\ pc = "done"
    /\ result = Err("EofWhileParsingString")
    /\ Len(input) >= 2
    /\ r = Len(input)
    /\ At(input, r - 1) = B.backslash
    /\ At(input, r - 2) = B.x

(* C10: when the scan runs off the end of the buffer (at the top of the    *)
(* loop, directly after a backslash, or with fewer than four bytes after   *)
(* `\u`) the unescaper returns EofWhileParsingString.                      *)
C10_EndOfBufferIsEof ==
    [][(/\ pc = "unescape"
        /\ \/ r >= Len(SelfSlice)
           \/ AtBackslash /\ r + 1 >= Len(SelfSlice)
           \/ AtUnicodeEscape /\ Len(SelfSlice) < r + 6)
       => pc' = "done" /\ result' = Err("EofWhileParsingString")
      ]_vars

\* the scan ended inside `\u` with one to three bytes left after it
C10_Witness ==
    /\ pc = "done"
    /\ result = Err("EofWhileParsingString")
    /\ r = 2
    /\ Len(input) \in 3..5
    /\ At(input, 0) = B.backslash
    /\ At(input, 1) = B.u

-----------------------------------------------------------------------------
(* The reference unescape of the claims: the scan of a string body s from  *)
(* 0-based offset i with the bytes out already produced.  Plain bytes are  *)
(* copied, `\\`, `\/`, `\"` give their second byte, `\u` and four hex digits *)
(* give the UTF-8 bytes of the code point, and the first quote outside an  *)
(* escape ends the body.  A body that is not made of these has no          *)
(* reference (NoValue).                                                    *)

RefDone(out, to) == [tag |-> "Ref", out |-> out, r |-> to]

RECURSIVE RefUnescape(_, _, _)
RefUnescape(s, i, out) ==
    IF i >= Len(s) THEN NoValue
    ELSE IF At(s, i) = B.quote THEN RefDone(out, i + 1)
    ELSE IF At(s, i) # B.backslash THEN RefUnescape(s, i + 1, out \o <<At(s, i)>>)
    ELSE IF i + 1 >= Len(s) THEN NoValue
    ELSE IF At(s, i + 1) \in {B.backslash, B.slash, B.quote}
    THEN RefUnescape(s, i + 2, out \o <<At(s, i + 1)>>)
    ELSE IF /\ At(s, i + 1) = B.u
            /\ i + 6 <= Len(s)
            /\ \A k \in (i + 2)..(i + 5) : IsHexDigit(At(s, k))
    THEN RefUnescape(s, i + 6, out \o EncodeUtf8(HexFold(Slice(s, i + 2, i + 6), 0)))
    ELSE NoValue

\* the unescaper's harness returned Ok((w, r))
HarnessOk == shape.kind = "unescape" /\ pc = "done" /\ result.tag = "Ok"

\* the first w bytes of the buffer and r are what the reference gives for
\* the caller's bytes
MatchesReference ==
    LET ref == RefUnescape(input, 0, <<>>)
    IN  /\ ref.tag = "Ref"
        /\ result.val = <<w, r>>
        /\ Slice(buf, 0, w) = ref.out
        /\ r = ref.r

\* `\u+` somewhere in the caller's bytes
HasSignedHex ==
    \E i \in 0..(Len(input) - 3) :
        At(input, i) = B.backslash /\ At(input, i + 1) = B.u /\ At(input, i + 2) = B.plus

(* C11: when the unescaper returns Ok((w, r)), the first w bytes of the    *)
(* buffer are the reference unescape of the string body, and r is the      *)
(* offset just past the first quote that is not part of an escape.         *)
C11_UnescapeIsReference == HarnessOk => MatchesReference

\* the same for every buffer without `\u+`
C11_ExceptSignedHex == (HarnessOk /\ ~HasSignedHex) => MatchesReference

-----------------------------------------------------------------------------
\* the test of a string literal: the bytes between its quotes
LiteralBody == Slice(input, expect.from + 1, expect.to - 1)

\* a string literal without a backslash is parsed
PlainStrLiteral ==
    /\ shape.kind = "str"
    /\ expect.tag = "Literal"
    /\ \A i \in 1..Len(LiteralBody) : LiteralBody[i] # B.backslash

(* C12: parsing a quoted string whose body has no backslash returns the    *)
(* body unchanged, and consumes the length of the body plus 2, the quotes. *)
C12_PlainStringRoundTrip ==
    PlainStrLiteral =>
        /\ pc = "end" =>
              /\ value.tag = "Str"
              /\ StrBytes(value) = LiteralBody
              /\ Slice(input, value.from, value.to) = LiteralBody
              /\ base + index = expect.from + Len(LiteralBody) + 2
        /\ pc = "done" => result.tag = "Ok" \/ result = Err("TrailingCharacters")
        /\ (pc = "done" /\ result.tag = "Ok") => StrBytes(result.val) = LiteralBody

\* a body of two plain tokens, one of them of three bytes, was returned
C12_Witness ==
    /\ PlainStrLiteral
    /\ pc = "end"
    /\ Len(LiteralBody) = 4
    /\ LiteralBody[1] = 226
    /\ StrBytes(value) = LiteralBody

-----------------------------------------------------------------------------
\* the offset of the first `,`, `}` or `]` of self.slice at or after i, the
\* length of the slice when there is none
NextDelimiter(i) ==
    LET sl == SelfSlice
        stops == {k \in i..Len(sl) : k = Len(sl) \/ At(sl, k) \in {B.comma, B.rbrace, B.rbracket}}
    IN  CHOOSE k \in stops : \A m \in stops : k <= m

\* the entries of a struct's own fields among those its visitor took, keys
\* by their bytes
RECURSIVE KnownItems(_)
KnownItems(items) ==
    IF items = <<>> THEN <<>>
    ELSE IF StrBytes(Head(items)[1]) \notin shape.fields.names
    THEN KnownItems(Tail(items))
    ELSE <<(<<StrBytes(Head(items)[1]), Head(items)[2]>>)>> \o KnownItems(Tail(items))

\* the handler the ignore-value operation hands a value that starts with c to
PathOf(c) ==
    IF c = B.quote THEN "str" ELSE IF c = B.lbracket THEN "seq" ELSE "map"

(* C13: the ignore-value operation skips one value.  On a first            *)
(* significant byte `"`, `[` or `{` it hands the value to the string,      *)
(* sequence or map handler and consumes nothing itself; on `,`, `}` or `]` *)
(* it fails with ExpectedSomeValue; any other token is consumed up to, not *)
(* including, the next `,`, `}` or `]`, whatever its bytes.  A struct with *)
(* unknown fields between its known ones yields the known fields' values.  *)
C13_IgnoredAnySkipsOneValue ==
    [][/\ (pc = "value" /\ Cur = "ignored") =>
            LET sl == SelfSlice
                i  == Significant(index)
                j  == NextDelimiter(i)
            IN  /\ (i < Len(sl) /\ At(sl, i) \in {B.quote, B.lbracket, B.lbrace}) =>
                      /\ pc' = "value"
                      /\ index' = i
                      /\ Cur' = PathOf(At(sl, i))
                      /\ result' = Pending
                /\ (i < Len(sl) /\ At(sl, i) \in {B.comma, B.rbrace, B.rbracket}) =>
                      pc' = "done" /\ result' = Err("ExpectedSomeValue")
                /\ (i < Len(sl) /\ j < Len(sl) /\ j > i
                       /\ At(sl, i) \notin {B.quote, B.lbracket, B.lbrace}) =>
                      /\ index' = j
                      /\ pc' # "done"
                      /\ result' = Pending
                      /\ buf' = buf
       /\ (expect.tag = "Object" /\ pc' = "done") =>
            /\ result'.tag = "Ok"
            /\ KnownItems(result'.val) = expect.val
      ]_vars

\* a struct was built from an object whose second entry, between two known
\* ones, was an unknown field with a token that is no JSON
C13_Witness ==
    /\ pc = "done"
    /\ expect.tag = "Object"
    /\ result.tag = "Ok"
    /\ Len(result.val) = 3
    /\ StrBytes(result.val[2][1]) = <<B.z>>
    /\ result.val[2][2] = Unit
    /\ KnownItems(result.val) = <<(<<(<<B.a>>), 1>>), (<<(<<B.e>>), 8>>)>>
    /\ Slice(input, 11, 15) = <<B.x, B.lbracket, B.lbrace, B.colon>>

-----------------------------------------------------------------------------
\* the offset of the first byte of self.slice at or after i that is no
\* decimal digit, the length of the slice when there is none
DigitsEnd(i) ==
    LET sl == SelfSlice
        stops == {k \in i..Len(sl) : k = Len(sl) \/ At(sl, k) \notin B.d0..B.d9}
    IN  CHOOSE k \in stops : \A m \in stops : k <= m

\* the number a run of decimal digits writes
RECURSIVE RunValue(_)
RunValue(run) ==
    IF run = <<>> THEN 0
    ELSE 10 * RunValue(SubSeq(run, 1, Len(run) - 1)) + (run[Len(run)] - B.d0)

(* C14: the unsigned parser skips whitespace, then: `-` is InvalidNumber;  *)
(* `0` yields zero and only that byte is consumed, so `01` yields 0 with   *)
(* the cursor on `1`; `1`..`9` takes the digits that follow; the first     *)
(* byte that is no digit is left unconsumed, and the number also ends      *)
(* well where the input ends.                                              *)
C14_UnsignedParser ==
    [][(pc = "value" /\ Cur \in UnsignedKinds /\ stack = <<>>) =>
         LET sl == SelfSlice
             i  == Significant(index)
             k  == DigitsEnd(i)
             n  == RunValue(Slice(sl, i, k))
         IN  /\ (i < Len(sl) /\ At(sl, i) = B.minus) =>
                    pc' = "done" /\ result' = Err("InvalidNumber")
             /\ (i < Len(sl) /\ At(sl, i) = B.d0) =>
                    pc' = "end" /\ value' = 0 /\ index' = i + 1
             /\ (i < Len(sl) /\ At(sl, i) \in (B.d0 + 1)..B.d9 /\ n <= IntMax[Cur]) =>
                    pc' = "end" /\ value' = n /\ index' = k
             /\ pc' = "end" => (index' = Len(sl) \/ At(sl, index') \notin B.d0..B.d9
                                  \/ At(sl, i) = B.d0)
      ]_vars

\* `01` was parsed as 0 with the cursor on `1`
C14_Witness ==
    /\ shape.kind = "u8"
    /\ input = <<B.d0, B.d1>>
    /\ pc = "end"
    /\ value = 0
    /\ index = 1

-----------------------------------------------------------------------------
(* C15: in every state of a parse index is an offset into the remaining    *)
(* slice or its length: no handler steps over a byte that is not there,    *)
(* and parse_str, which re-bases the slice, leaves index inside the new    *)
(* slice.                                                                  *)
C15_IndexWithinSlice ==
    /\ base \in 0..Len(buf)
    /\ index \in 0..Len(SelfSlice)
    /\ Len(buf) = Len(input)
    /\ pc = "parse_str" => w <= r /\ r <= Len(SelfSlice)

\* parse_str re-based the slice past a string that ends the buffer: index
\* is the length of the slice that is left
C15_Witness ==
    /\ pc = "end"
    /\ shape.kind = "str"
    /\ base > 1
    /\ index > 0
    /\ index = Len(SelfSlice)
    /\ w < r - 1

-----------------------------------------------------------------------------
(* C16: when the buffer is valid UTF-8 on entry, the bytes [0, w) every    *)
(* successful unescape leaves are valid UTF-8, and parsing a string never  *)
(* returns InvalidUnicodeCodePoint.                                        *)
C16_OutputIsUtf8 ==
    IsUtf8(input) =>
        /\ pc = "parse_str" => IsUtf8(Slice(SelfSlice, 0, w))
        /\ result # Err("InvalidUnicodeCodePoint")
        /\ (pc = "end" /\ shape.kind = "str") => IsUtf8(StrBytes(value))

\* a string of an escaped quote and a character of two bytes was returned
\* from a buffer of valid UTF-8
C16_Witness ==
    /\ IsUtf8(input)
    /\ shape.kind = "str"
    /\ pc = "end"
    /\ StrBytes(value) = <<B.quote, 195, 169>>
    /\ buf # input

-----------------------------------------------------------------------------
\* from_str has returned: the buffer was a str, valid UTF-8, on entry
FromStrReturned == IsUtf8(input) /\ pc = "done"

(* C17: after from_str has returned, with a value or an error, the         *)
(* caller's text buffer as a whole (what was unescaped, the stale bytes    *)
(* between the write and read offsets, and the rest) is valid UTF-8.       *)
C17_BufferStaysUtf8 == FromStrReturned => IsUtf8(buf)

-----------------------------------------------------------------------------
\* the bytes of self.slice from offset i on begin with lit
StartsWith(i, lit) ==
    /\ i + Len(lit) <= Len(SelfSlice)
    /\ Slice(SelfSlice, i, i + Len(lit)) = lit

TrueText == <<B.t, B.r, B.u, B.e>>

FalseText == <<B.f, B.a, 108, 115, B.e>>

(* C18: the boolean handler skips whitespace, then yields true only on the *)
(* bytes `true` and false only on the bytes `false`; a first significant   *)
(* byte that is neither `t` nor `f` is InvalidType; the end of input is    *)
(* EofWhileParsingValue; `t` or `f` with a wrong or missing byte after it  *)
(* is ExpectedSomeIdent, never a boolean.                                  *)
C18_BoolDispatch ==
    [][(pc = "value" /\ Cur = "bool" /\ stack = <<>>) =>
         LET sl == SelfSlice
             i  == Significant(index)
         IN  /\ i = Len(sl) => pc' = "done" /\ result' = Err("EofWhileParsingValue")
             /\ StartsWith(i, TrueText) =>
                    pc' = "end" /\ value' = TRUE /\ index' = i + 4
             /\ StartsWith(i, FalseText) =>
                    pc' = "end" /\ value' = FALSE /\ index' = i + 5
             /\ (i < Len(sl) /\ At(sl, i) \notin {B.t, B.f}) =>
                    pc' = "done" /\ result' = Err("InvalidType")
             /\ (i < Len(sl) /\ At(sl, i) \in {B.t, B.f}
                    /\ ~StartsWith(i, TrueText) /\ ~StartsWith(i, FalseText)) =>
                    pc' = "done" /\ result' = Err("ExpectedSomeIdent")
             /\ pc' = "end" => StartsWith(i, TrueText) \/ StartsWith(i, FalseText)
      ]_vars

\* `fals` and a wrong byte were refused
C18_Witness ==
    /\ shape.kind = "bool"
    /\ input = <<B.f, B.a, 108, 115, B.x>>
    /\ pc = "done"
    /\ result = Err("ExpectedSomeIdent")
    /\ index = 5

-----------------------------------------------------------------------------
\* the offset into the caller's buffer of the next byte to be read: the
\* unescaper's while it runs, the cursor's otherwise
ReadPos == base + (IF pc \in {"unescape", "parse_str"} THEN r ELSE index)

\* the value the handler that just returned gave the visitor
Returned == IF stack = <<>> THEN value ELSE Top.items[Len(Top.items)]

(* C19: when a string whose opening quote is at offset q of the caller's   *)
(* buffer has been parsed, with (w, r) from the unescaper, the string      *)
(* returned is the region [q+1, q+1+w) of that buffer and the next byte    *)
(* the cursor reads is the one at q+1+r, just after the closing quote; the *)
(* bytes between the end of the string and the closing quote are never     *)
(* read again.                                                             *)
C19_StringRegionAndCursor ==
    [][/\ (pc = "parse_str" /\ pc' # "done" /\ stack # <<>> /\ Top.kind = "seq") =>
            LET q == base - 1
            IN  /\ At(input, q) = B.quote
                /\ Returned' = Str(q + 1, q + 1 + w)
                /\ base' + index' = q + 1 + r
                /\ At(input, q + r) = B.quote
                /\ base' = q + 1 + w
       /\ ReadPos' >= ReadPos
       /\ base' >= base
      ]_vars

\* the second string of an array was returned, shorter than its literal
C19_Witness ==
    /\ pc = "visit_seq"
    /\ Top.taken = 2
    /\ Returned.from > 4
    /\ Returned.to - Returned.from = 2
    /\ base + index > Returned.to + 2
    /\ base = Returned.to

-----------------------------------------------------------------------------
\* the strings handed to the visitor of the open array so far
Handed == IF stack = <<>> THEN <<>> ELSE Top.items

\* the offsets of the buffer this step writes a new byte at
Written == {k \in 0..(Len(buf) - 1) : At(buf', k) # At(buf, k)}

(* C20: within one parse a string that was handed to the visitor is never  *)
(* written again: every later unescape writes at or after the end of every *)
(* region returned before, and the regions returned do not overlap.        *)
C20_ReturnedStringsStay ==
    [][/\ \A n \in 1..Len(Handed) : \A k \in Written : k >= Handed[n].to
       /\ \A n \in 1..Len(Handed) :
             /\ n <= Len(Handed') => Handed'[n] = Handed[n]
             /\ Slice(buf', Handed[n].from, Handed[n].to) = StrBytes(Handed[n])
       /\ \A m, n \in 1..Len(Handed') :
             m < n => Handed'[m].to <= Handed'[n].from
       /\ pc = "unescape" => Written \subseteq (base + w)..(base + w' - 1)
      ]_vars

\* two strings were returned, and unescaping the second changed the buffer
\* after the first
C20_Witness ==
    /\ pc = "visit_seq"
    /\ Len(Handed) = 2
    /\ Handed[1].to > Handed[1].from
    /\ StrBytes(Handed[1]) # Slice(input, Handed[1].from, Handed[1].to)
    /\ StrBytes(Handed[2]) # Slice(input, Handed[2].from, Handed[2].to)

-----------------------------------------------------------------------------
(* C21 as stated: sequence dispatch looks at the byte at the cursor        *)
(* without skipping whitespace; `[` is consumed and the adapter runs, and  *)
(* in every other case the result is InvalidType with the cursor           *)
(* unchanged; map dispatch skips whitespace before it requires `{`.        *)
C21_Original ==
    [][/\ (pc = "value" /\ Cur = "seq") =>
            IF index < Len(SelfSlice) /\ At(SelfSlice, index) = B.lbracket
            THEN /\ index' = index + 1
                 /\ pc' = "visit_seq"
                 /\ Len(stack') = Len(stack) + 1
            ELSE /\ pc' = "done"
                 /\ result' = Err("InvalidType")
                 /\ index' = index
       /\ (pc = "value" /\ Cur = "map") =>
            LET i == Significant(index)
            IN  IF i < Len(SelfSlice) /\ At(SelfSlice, i) = B.lbrace
                THEN /\ index' = i + 1
                     /\ pc' = "visit_map"
                     /\ Len(stack') = Len(stack) + 1
                ELSE /\ pc' = "done"
                     /\ result'.tag = "Err"
                     /\ index' = i
      ]_vars

(* C21: sequence dispatch looks at the byte at the cursor without skipping *)
(* whitespace.  `[` is consumed and the adapter runs; any other byte, a    *)
(* whitespace byte before a `[` included, gives InvalidType with the       *)
(* cursor unchanged; at the end of the input the result is                 *)
(* EofWhileParsingValue.  Map dispatch skips whitespace first: `{` is      *)
(* consumed and the adapter runs, any other byte gives InvalidType with    *)
(* the cursor on it, the end of the input gives EofWhileParsingValue.      *)
C21_SeqDispatchSkipsNoWhitespace ==
    [][/\ (pc = "value" /\ Cur = "seq") =>
            IF index = Len(SelfSlice)
            THEN /\ pc' = "done"
                 /\ result' = Err("EofWhileParsingValue")
                 /\ index' = index
            ELSE IF At(SelfSlice, index) = B.lbracket
            THEN /\ index' = index + 1
                 /\ pc' = "visit_seq"
                 /\ Len(stack') = Len(stack) + 1
                 /\ result' = Pending
            ELSE /\ pc' = "done"
                 /\ result' = Err("InvalidType")
                 /\ index' = index
       /\ (pc = "value" /\ Cur = "map") =>
            LET i == Significant(index)
            IN  IF i = Len(SelfSlice)
                THEN /\ pc' = "done"
                     /\ result' = Err("EofWhileParsingValue")
                     /\ index' = i
                ELSE IF At(SelfSlice, i) = B.lbrace
                THEN /\ index' = i + 1
                     /\ pc' = "visit_map"
                     /\ Len(stack') = Len(stack) + 1
                     /\ result' = Pending
                ELSE /\ pc' = "done"
                     /\ result' = Err("InvalidType")
                     /\ index' = i
      ]_vars

\* a tuple was asked of ` []`: the space before the bracket is refused
C21_Witness ==
    /\ pc = "done"
    /\ shape.kind = "seq"
    /\ input = <<B.sp, B.lbracket, B.rbracket>>
    /\ result = Err("InvalidType")
    /\ index = 0
    /\ stack = <<>>

-----------------------------------------------------------------------------
(* C22: every fallible step hands its failure on unchanged.  When the      *)
(* cursor, the unescaper or the numeric parser returns an error, the parse *)
(* ends in that step with that error as the entry function's result: the  *)
(* cursor stays where the failing step left it, no byte of the buffer is   *)
(* written, no container open at the time takes another value, and the    *)
(* result carries no value.  Nothing happens after the entry function has *)
(* returned.                                                               *)
C22_ErrorsPropagateUnchanged ==
    [][LET sl == SelfSlice
           asks == pc \in {"visit_seq", "visit_map"}
                      /\ (Top.want = Unbounded \/ Top.taken < Top.want)
           raised ==
               CASE pc = "value" /\ Cur \in UnsignedKinds ->
                        deserialize_unsigned(sl, index, Cur)
                 [] pc = "value" /\ Cur = "str" -> deserialize_str(sl, index)
                 [] pc = "value" /\ Cur = "seq" -> deserialize_seq(sl, index)
                 [] pc = "value" /\ Cur = "map" -> deserialize_map(sl, index)
                 [] pc = "visit_seq" /\ asks -> next_element(sl, index, Top.first)
                 [] pc = "visit_map" /\ asks -> next_key(sl, index, Top.first)
                 [] pc = "map_value" -> parse_object_colon(sl, index)
                 [] pc = "end_seq" -> end_seq(sl, index)
                 [] pc = "end_map" -> end_map(sl, index)
                 [] pc = "end" -> end(sl, index)
                 [] pc = "unescape" -> Out(UnescapeIter(sl, w, r).ret, index)
                 [] OTHER -> Out(Ok(TRUE), index)
       IN  /\ raised.ret.tag = "Err" =>
                /\ pc' = "done"
                /\ result' = raised.ret
                /\ index' = raised.index
                /\ base' = base
                /\ buf' = buf
                /\ stack' = stack
                /\ value' = value
           /\ result'.tag = "Err" =>
                /\ pc' = "done"
                /\ DOMAIN result' = {"tag", "err"}
           /\ pc # "done"
      ]_vars

\* the second element of `[1,, ` is no number: the parse ends there with the
\* numeric parser's error, the tuple's visitor holding one element and the
\* last byte unread
C22_Witness ==
    /\ pc = "done"
    /\ input = <<B.lbracket, B.d1, B.comma, B.comma, B.sp>>
    /\ result = Err("InvalidType")
    /\ Len(stack) = 1
    /\ Top.items = <<1>>
    /\ index = 3
    /\ buf = input

=============================================================================
